---- MODULE Spec2Model ----
(***************************************************************************)
(* Model of llm-backend/local_llm_service.py: the LocalLLMService model    *)
(* registry (models, current_model), load_model, generate_text, the        *)
(* keyword fallback responder and the Flask handlers built on them.        *)
(*                                                                         *)
(* Texts are sequences of strings.  Prompts and adapter output are         *)
(* sequences of one-character strings, so that lower(), strip() and the    *)
(* substring test `in` are computed character by character.  The three     *)
(* literal fallback templates are sequences of chunks whose concatenation  *)
(* is the literal of the source.                                           *)
(***************************************************************************)
EXTENDS Integers, Sequences, FiniteSets, TLC

(***************************************************************************)
(* Bounds                                                                  *)
(***************************************************************************)
\* prompts handed to the fallback responder: at most this many tokens
MaxPromptTokens == 3
\* length of the text the inference adapter generates
MaxGenLen == 2
\* adapter setups (tokenizer creations) per model name
MaxSetupCalls == 2

(***************************************************************************)
(* Python str operations                                                   *)
(***************************************************************************)
UpperCase == <<"A","B","C","D","E","F","G","H","I","J","K","L","M",
               "N","O","P","Q","R","S","T","U","V","W","X","Y","Z">>
LowerCase == <<"a","b","c","d","e","f","g","h","i","j","k","l","m",
               "n","o","p","q","r","s","t","u","v","w","x","y","z">>
Whitespace == {" ", "\t", "\n", "\r"}

\* str.lower() on one character
lower_char(c) ==
    IF \E i \in 1..Len(UpperCase) : UpperCase[i] = c
    THEN LowerCase[CHOOSE i \in 1..Len(UpperCase) : UpperCase[i] = c]
    ELSE c

\* str.lower()
str_lower(s) == [i \in 1..Len(s) |-> lower_char(s[i])]

\* the Python operator `sub in s` on strings
str_contains(sub, s) ==
    \E i \in 0..(Len(s) - Len(sub)) : SubSeq(s, i + 1, i + Len(sub)) = sub

RECURSIVE str_lstrip(_)
str_lstrip(s) ==
    IF s = <<>> THEN <<>>
    ELSE IF Head(s) \in Whitespace THEN str_lstrip(Tail(s)) ELSE s

RECURSIVE str_rstrip(_)
str_rstrip(s) ==
    IF s = <<>> THEN <<>>
    ELSE IF s[Len(s)] \in Whitespace THEN str_rstrip(SubSeq(s, 1, Len(s) - 1))
    ELSE s

\* str.strip()
str_strip(s) == str_rstrip(str_lstrip(s))

(***************************************************************************)
(* JSON / Python values that can arrive as a prompt                        *)
(***************************************************************************)
PyStr(s) == [type |-> "str", val |-> s]
PyNone == [type |-> "NoneType", val |-> <<>>]
PyFalse == [type |-> "bool", val |-> <<"False">>]
PyTrue == [type |-> "bool", val |-> <<"True">>]
PyInt(n) == [type |-> "int", val |-> <<n>>]
PyList(elems) == [type |-> "list", val |-> elems]
PyDict(keys) == [type |-> "dict", val |-> keys]

\* Python truthiness, as tested by `if not prompt`
truthy(v) ==
    CASE v.type = "str" -> Len(v.val) > 0
      [] v.type = "NoneType" -> FALSE
      [] v.type = "bool" -> v = PyTrue
      [] v.type = "int" -> v.val # <<"0">>
      [] OTHER -> Len(v.val) > 0

\* prompt[:100] is defined on str and list only
sliceable(v) == v.type \in {"str", "list"}

(***************************************************************************)
(* Fallback responder                                                      *)
(***************************************************************************)
kw_business_case == <<"b","u","s","i","n","e","s","s"," ","c","a","s","e">>
kw_feasibility == <<"f","e","a","s","i","b","i","l","i","t","y">>

BusinessCaseTemplate ==
    << "# ", "Business Case Analysis", "\n", "\n",
       "Based on the project requirements, this initiative presents a compelling opportunity for organizational improvement. ",
       "\n", "\n",
       "**Key Benefits:**", "\n",
       "- Enhanced operational efficiency through automation", "\n",
       "- Reduced manual effort and error rates  ", "\n",
       "- Improved scalability and performance", "\n",
       "- Strategic competitive positioning", "\n", "\n",
       "**Investment Considerations:**", "\n",
       "- Initial implementation costs balanced by long-term savings", "\n",
       "- Risk mitigation through phased approach", "\n",
       "- Strong ROI potential based on efficiency gains", "\n", "\n",
       "**", "Recommendation:",
       "** Proceed with detailed planning and stakeholder alignment to maximize project success." >>

FeasibilityTemplate ==
    << "# ", "Feasibility Assessment", "\n", "\n",
       "The proposed project demonstrates strong viability across multiple dimensions:",
       "\n", "\n",
       "**Technical Feasibility:** High - leveraging proven technologies and methodologies", "\n",
       "**Financial Feasibility:** Positive - reasonable investment with measurable returns  ", "\n",
       "**Operational Feasibility:** Strong - aligns with current capabilities and growth objectives", "\n",
       "**Strategic Feasibility:** Excellent - supports long-term organizational goals", "\n", "\n",
       "**Risk Factors:** Manageable through proper planning and change management", "\n",
       "**Timeline:** Achievable with dedicated resources and stakeholder support", "\n", "\n",
       "**", "Overall Assessment:", "** ", "PROCEED",
       " - Project shows high probability of success with appropriate execution." >>

GenericTemplate ==
    << "Based on the requirements outlined, this represents a valuable initiative that can drive significant organizational benefits.",
       "\n", "\n",
       "Key considerations include strategic alignment, resource allocation, and implementation approach. Success will depend on effective planning, stakeholder engagement, and execution excellence.",
       "\n", "\n",
       "Recommend proceeding with detailed analysis",
       " and structured implementation planning." >>

\* outcome of a call: a returned text, or an exception leaving the call
Returned(t) == [kind |-> "return", text |-> t, exc |-> ""]
Raised(e) == [kind |-> "raise", text |-> <<>>, exc |-> e]

\* the mutant tests the keywords in the other order
generate_fallback_response_FeasibilityFirst(prompt) ==
    IF prompt.type # "str" THEN Raised("AttributeError")
    ELSE IF str_contains(kw_feasibility, str_lower(prompt.val))
         THEN Returned(FeasibilityTemplate)
    ELSE IF str_contains(kw_business_case, str_lower(prompt.val))
         THEN Returned(BusinessCaseTemplate)
    ELSE Returned(GenericTemplate)

\* LocalLLMService.generate_fallback_response; prompt.lower() exists on str only
generate_fallback_response(prompt) ==
    IF prompt.type # "str" THEN Raised("AttributeError")
    ELSE IF str_contains(kw_business_case, str_lower(prompt.val))
         THEN Returned(BusinessCaseTemplate)
    ELSE IF str_contains(kw_feasibility, str_lower(prompt.val))
         THEN Returned(FeasibilityTemplate)
    ELSE Returned(GenericTemplate)

(***************************************************************************)
(* Model registry: LocalLLMService.models and LocalLLMService.current_model *)
(***************************************************************************)
DefaultModel == "microsoft/DialoGPT-small"
ModelNames == {DefaultModel, "distilgpt2"}
None == "None"
EmptyDict == [n \in {} |-> <<>>]

\* the dict stored under a model name
ModelHandle(model_name) ==
    [generator |-> <<"pipeline", model_name>>,
     tokenizer |-> <<"tokenizer", model_name>>,
     model |-> <<"model", model_name>>]

dict_set(d, k, v) == [n \in DOMAIN d \cup {k} |-> IF n = k THEN v ELSE d[n]]

\* where the body of load_model can raise
SetupOutcomes == {"import_error", "tokenizer_error", "model_error", "pipeline_error", "ok"}

\* the service object together with the state of the interpreter it runs in
ServiceState(m, c, imp, sc) ==
    [models |-> m, current_model |-> c, transformers_imported |-> imp, setup_calls |-> sc]

\* mutant: the current model is selected before the setup has succeeded
load_model_SelectsBeforeSetup(st, model_name, outcome) ==
    IF ~st.transformers_imported /\ outcome = "import_error"
    THEN [st |-> st, ret |-> FALSE]
    ELSE LET imported == [st EXCEPT !.transformers_imported = TRUE,
                                    !.current_model = model_name] IN
         IF model_name \notin DOMAIN st.models
         THEN LET started == [imported EXCEPT !.setup_calls[model_name] = @ + 1] IN
              IF outcome \in {"tokenizer_error", "model_error", "pipeline_error"}
              THEN [st |-> started, ret |-> FALSE]
              ELSE [st |-> [started EXCEPT
                              !.models = dict_set(@, model_name, ModelHandle(model_name))],
                    ret |-> TRUE]
         ELSE [st |-> imported, ret |-> TRUE]

\* mutant: the handle is stored before the pipeline is created
load_model_InsertsBeforePipeline(st, model_name, outcome) ==
    IF ~st.transformers_imported /\ outcome = "import_error"
    THEN [st |-> st, ret |-> FALSE]
    ELSE LET imported == [st EXCEPT !.transformers_imported = TRUE] IN
         IF model_name \notin DOMAIN st.models
         THEN LET started == [imported EXCEPT !.setup_calls[model_name] = @ + 1]
                  stored == [started EXCEPT
                               !.models = dict_set(@, model_name, ModelHandle(model_name))]
              IN  IF outcome \in {"tokenizer_error", "model_error"}
                  THEN [st |-> started, ret |-> FALSE]
                  ELSE IF outcome = "pipeline_error"
                  THEN [st |-> stored, ret |-> FALSE]
                  ELSE [st |-> [stored EXCEPT !.current_model = model_name],
                        ret |-> TRUE]
         ELSE [st |-> [imported EXCEPT !.current_model = model_name], ret |-> TRUE]

\* mutant: the test `model_name not in self.models` is missing
load_model_NoCacheCheck(st, model_name, outcome) ==
    IF ~st.transformers_imported /\ outcome = "import_error"
    THEN [st |-> st, ret |-> FALSE]
    ELSE LET imported == [st EXCEPT !.transformers_imported = TRUE]
             started == [imported EXCEPT !.setup_calls[model_name] = @ + 1]
         IN  IF outcome \in {"tokenizer_error", "model_error", "pipeline_error"}
             THEN [st |-> started, ret |-> FALSE]
             ELSE [st |-> [started EXCEPT
                             !.models = dict_set(@, model_name, ModelHandle(model_name)),
                             !.current_model = model_name],
                   ret |-> TRUE]

\* mutant: a cached name is not selected again
load_model_HitKeepsCurrent(st, model_name, outcome) ==
    IF ~st.transformers_imported /\ outcome = "import_error"
    THEN [st |-> st, ret |-> FALSE]
    ELSE LET imported == [st EXCEPT !.transformers_imported = TRUE] IN
         IF model_name \notin DOMAIN st.models
         THEN LET started == [imported EXCEPT !.setup_calls[model_name] = @ + 1] IN
              IF outcome \in {"tokenizer_error", "model_error", "pipeline_error"}
              THEN [st |-> started, ret |-> FALSE]
              ELSE [st |-> [started EXCEPT
                              !.models = dict_set(@, model_name, ModelHandle(model_name)),
                              !.current_model = model_name],
                    ret |-> TRUE]
         ELSE [st |-> imported, ret |-> TRUE]

\* mutant: a new model takes the place of the models loaded before
load_model_KeepsOneModel(st, model_name, outcome) ==
    IF ~st.transformers_imported /\ outcome = "import_error"
    THEN [st |-> st, ret |-> FALSE]
    ELSE LET imported == [st EXCEPT !.transformers_imported = TRUE] IN
         IF model_name \notin DOMAIN st.models
         THEN LET started == [imported EXCEPT !.setup_calls[model_name] = @ + 1] IN
              IF outcome \in {"tokenizer_error", "model_error", "pipeline_error"}
              THEN [st |-> started, ret |-> FALSE]
              ELSE [st |-> [started EXCEPT
                              !.models = dict_set(EmptyDict, model_name,
                                                  ModelHandle(model_name)),
                              !.current_model = model_name],
                    ret |-> TRUE]
         ELSE [st |-> [imported EXCEPT !.current_model = model_name], ret |-> TRUE]

\* LocalLLMService.load_model; st is the service before the call, outcome is
\* the first step of the body that raises ("ok" when none does)
load_model(st, model_name, outcome) ==
    IF ~st.transformers_imported /\ outcome = "import_error"
    THEN [st |-> st, ret |-> FALSE]
    ELSE LET imported == [st EXCEPT !.transformers_imported = TRUE] IN
         IF model_name \notin DOMAIN st.models
         THEN LET started == [imported EXCEPT !.setup_calls[model_name] = @ + 1] IN
              IF outcome \in {"tokenizer_error", "model_error", "pipeline_error"}
              THEN [st |-> started, ret |-> FALSE]
              ELSE [st |-> [started EXCEPT
                              !.models = dict_set(@, model_name, ModelHandle(model_name)),
                              !.current_model = model_name],
                    ret |-> TRUE]
         ELSE [st |-> [imported EXCEPT !.current_model = model_name], ret |-> TRUE]

(***************************************************************************)
(* Generation pipeline                                                     *)
(***************************************************************************)
\* what the generator pipeline of a loaded model does when it is called
AdapterResult(k, t) == [kind |-> k, text |-> t]
NotInvoked == AdapterResult("not_invoked", <<>>)
GenAlphabet == {" ", "a"}
GenTexts == UNION {[1..n -> GenAlphabet] : n \in 0..MaxGenLen}
AdapterOutcomes ==
    {AdapterResult("raise", <<>>), AdapterResult("none", <<>>),
     AdapterResult("empty", <<>>), AdapterResult("malformed", <<>>)}
    \cup {AdapterResult("text", t) : t \in GenTexts}

\* the condition of line 108 is false: a generator is looked up
has_current_model(st) ==
    st.current_model # None /\ st.current_model \in DOMAIN st.models

\* the generator is reached only after prompt[:100] of line 115
invokes_generator(st, prompt) == has_current_model(st) /\ sliceable(prompt)

\* mutant: without a model the call returns an empty text
generate_text_EmptyWhenNoModel(st, prompt, adapter) ==
    LET try_body ==
            IF ~has_current_model(st) THEN Returned(<<>>)
            ELSE IF ~sliceable(prompt) THEN Raised("TypeError")
            ELSE CASE adapter.kind = "text" -> Returned(str_strip(adapter.text))
                   [] adapter.kind \in {"none", "empty"} -> generate_fallback_response(prompt)
                   [] adapter.kind = "malformed" -> Raised("KeyError")
                   [] OTHER -> Raised("RuntimeError")
    IN  [st |-> st,
         out |-> IF try_body.kind = "raise"
                 THEN generate_fallback_response(prompt)
                 ELSE try_body,
         generator_calls |-> IF invokes_generator(st, prompt) THEN 1 ELSE 0]

\* mutant: the except branch deselects the model that failed
generate_text_DropsModelOnError(st, prompt, adapter) ==
    LET try_body ==
            IF ~has_current_model(st) THEN generate_fallback_response(prompt)
            ELSE IF ~sliceable(prompt) THEN Raised("TypeError")
            ELSE CASE adapter.kind = "text" -> Returned(str_strip(adapter.text))
                   [] adapter.kind \in {"none", "empty"} -> generate_fallback_response(prompt)
                   [] adapter.kind = "malformed" -> Raised("KeyError")
                   [] OTHER -> Raised("RuntimeError")
    IN  [st |-> IF try_body.kind = "raise"
                THEN [st EXCEPT !.current_model = None]
                ELSE st,
         out |-> IF try_body.kind = "raise"
                 THEN generate_fallback_response(prompt)
                 ELSE try_body,
         generator_calls |-> IF invokes_generator(st, prompt) THEN 1 ELSE 0]

\* LocalLLMService.generate_text; adapter is what the generator call does
generate_text(st, prompt, adapter) ==
    LET try_body ==
            IF ~has_current_model(st) THEN generate_fallback_response(prompt)
            ELSE IF ~sliceable(prompt) THEN Raised("TypeError")
            ELSE CASE adapter.kind = "text" -> Returned(str_strip(adapter.text))
                   [] adapter.kind \in {"none", "empty"} -> generate_fallback_response(prompt)
                   [] adapter.kind = "malformed" -> Raised("KeyError")
                   [] OTHER -> Raised("RuntimeError")
    IN  [st |-> st,
         out |-> IF try_body.kind = "raise"
                 THEN generate_fallback_response(prompt)
                 ELSE try_body,
         generator_calls |-> IF invokes_generator(st, prompt) THEN 1 ELSE 0]

(***************************************************************************)
(* Flask handlers of start_server                                          *)
(***************************************************************************)
\* what request.get_json() finds in the request
JsonInvalid == [json |-> "invalid", has_prompt |-> FALSE, prompt |-> PyNone]
JsonNull == [json |-> "null", has_prompt |-> FALSE, prompt |-> PyNone]
JsonArray == [json |-> "array", has_prompt |-> FALSE, prompt |-> PyNone]
JsonObjectNoPrompt == [json |-> "object", has_prompt |-> FALSE, prompt |-> PyNone]
JsonObject(v) == [json |-> "object", has_prompt |-> TRUE, prompt |-> v]

Response(code, payload) == [status |-> code, body |-> payload]

\* the call the handler makes to service.generate_text, or the absence of one
NoGen == [called |-> FALSE, out |-> Returned(<<>>), generator_calls |-> 0]
GenCall(g) == [called |-> TRUE, out |-> g.out, generator_calls |-> g.generator_calls]

ErrorResponse(e) == Response(500, [error |-> e, status |-> "error"])

\* mutant: the test `if not prompt` is missing
http_generate_text_NoValidation(st, body, adapter) ==
    IF body.json = "invalid"
    THEN [st |-> st, gen |-> NoGen, resp |-> ErrorResponse("BadRequest")]
    ELSE IF body.json # "object"
    THEN [st |-> st, gen |-> NoGen, resp |-> ErrorResponse("AttributeError")]
    ELSE LET prompt == IF body.has_prompt THEN body.prompt ELSE PyStr(<<>>) IN
         IF ~sliceable(prompt)
         THEN [st |-> st, gen |-> NoGen, resp |-> ErrorResponse("TypeError")]
         ELSE LET g == generate_text(st, prompt, adapter) IN
              [st |-> g.st, gen |-> GenCall(g),
               resp |-> IF g.out.kind = "raise"
                        THEN ErrorResponse(g.out.exc)
                        ELSE Response(200, [generated_text |-> g.out.text,
                                            status |-> "success"])]

\* mutant: a body that is not JSON is refused by the framework with 400
http_generate_text_BadJsonIs400(st, body, adapter) ==
    IF body.json = "invalid"
    THEN [st |-> st, gen |-> NoGen, resp |-> Response(400, [error |-> "BadRequest"])]
    ELSE IF body.json # "object"
    THEN [st |-> st, gen |-> NoGen, resp |-> ErrorResponse("AttributeError")]
    ELSE LET prompt == IF body.has_prompt THEN body.prompt ELSE PyStr(<<>>) IN
         IF ~truthy(prompt)
         THEN [st |-> st, gen |-> NoGen,
               resp |-> Response(400, [error |-> "No prompt provided"])]
         ELSE IF ~sliceable(prompt)
         THEN [st |-> st, gen |-> NoGen, resp |-> ErrorResponse("TypeError")]
         ELSE LET g == generate_text(st, prompt, adapter) IN
              [st |-> g.st, gen |-> GenCall(g),
               resp |-> IF g.out.kind = "raise"
                        THEN ErrorResponse(g.out.exc)
                        ELSE Response(200, [generated_text |-> g.out.text,
                                            status |-> "success"])]

\* mutant: the handler loads the default model when none is current
http_generate_text_LoadsDefault(st, body, adapter) ==
    IF body.json = "invalid"
    THEN [st |-> st, gen |-> NoGen, resp |-> ErrorResponse("BadRequest")]
    ELSE IF body.json # "object"
    THEN [st |-> st, gen |-> NoGen, resp |-> ErrorResponse("AttributeError")]
    ELSE LET prompt == IF body.has_prompt THEN body.prompt ELSE PyStr(<<>>) IN
         IF ~truthy(prompt)
         THEN [st |-> st, gen |-> NoGen,
               resp |-> Response(400, [error |-> "No prompt provided"])]
         ELSE IF ~sliceable(prompt)
         THEN [st |-> st, gen |-> NoGen, resp |-> ErrorResponse("TypeError")]
         ELSE LET ready == IF has_current_model(st) THEN st
                           ELSE load_model(st, DefaultModel, "ok").st
                  g == generate_text(ready, prompt, adapter)
              IN  [st |-> g.st, gen |-> GenCall(g),
                   resp |-> IF g.out.kind = "raise"
                            THEN ErrorResponse(g.out.exc)
                            ELSE Response(200, [generated_text |-> g.out.text,
                                                status |-> "success"])]

\* start_server.generate_text, the handler of POST /generate
http_generate_text(st, body, adapter) ==
    IF body.json = "invalid"
    THEN [st |-> st, gen |-> NoGen, resp |-> ErrorResponse("BadRequest")]
    ELSE IF body.json # "object"
    THEN [st |-> st, gen |-> NoGen, resp |-> ErrorResponse("AttributeError")]
    ELSE LET prompt == IF body.has_prompt THEN body.prompt ELSE PyStr(<<>>) IN
         IF ~truthy(prompt)
         THEN [st |-> st, gen |-> NoGen,
               resp |-> Response(400, [error |-> "No prompt provided"])]
         ELSE IF ~sliceable(prompt)
         THEN [st |-> st, gen |-> NoGen, resp |-> ErrorResponse("TypeError")]
         ELSE LET g == generate_text(st, prompt, adapter) IN
              [st |-> g.st, gen |-> GenCall(g),
               resp |-> IF g.out.kind = "raise"
                        THEN ErrorResponse(g.out.exc)
                        ELSE Response(200, [generated_text |-> g.out.text,
                                            status |-> "success"])]

\* mutant: the handler reports that no model is available
health_check_NoModels ==
    Response(200, [status |-> "healthy", service |-> "Local LLM Service",
                   models_available |-> FALSE])

\* start_server.health_check, the handler of GET /health
health_check ==
    Response(200, [status |-> "healthy", service |-> "Local LLM Service",
                   models_available |-> TRUE])

(***************************************************************************)
(* Inputs                                                                  *)
(***************************************************************************)
tok_business == <<"b","u","s","i","n","e","s","s"," ">>
tok_case == <<"c","a","s","e">>
tok_BusinessCASE == <<"B","u","s","i","n","e","s","s"," ","C","A","S","E">>
tok_Feasibility == <<"F","e","a","s","i","b","i","l","i","t","y">>
tok_x == <<"x">>

PromptTokens == {tok_business, tok_case, tok_BusinessCASE, tok_Feasibility, tok_x}

RECURSIVE PromptsUpTo(_)
PromptsUpTo(n) ==
    IF n = 0 THEN {<<>>}
    ELSE LET shorter == PromptsUpTo(n - 1) IN
         shorter \cup {p \o t : p \in shorter, t \in PromptTokens}

\* prompts of the callers of generate_text: the empty prompt and one prompt
\* for each way the fallback responder can classify it
CallPrompts ==
    {PyStr(<<>>), PyStr(tok_x), PyStr(tok_BusinessCASE), PyStr(tok_Feasibility),
     PyStr(tok_Feasibility \o tok_BusinessCASE)}

\* values a JSON object can carry under the key "prompt"
JsonPrompts ==
    CallPrompts \cup {PyNone, PyFalse, PyTrue, PyInt("0"), PyInt("5"),
                      PyList(<<>>), PyList(<<"x">>), PyDict(<<>>), PyDict(<<"k">>)}

RequestBodies ==
    {JsonInvalid, JsonNull, JsonArray, JsonObjectNoPrompt}
    \cup {JsonObject(v) : v \in JsonPrompts}

(***************************************************************************)
(* Threads and the command-line process                                    *)
(***************************************************************************)
\* threads that can be inside a call at the same time
MaxThreads == 2
Threads == 1..MaxThreads

NoResponse == Response(0, [status |-> "none"])

\* a thread: the call it is in (op), the line it has reached (pc), its
\* arguments and locals, and what the call has done so far
IdleThread ==
    [op |-> "none", pc |-> "idle", model_name |-> None, prompt |-> PyNone,
     body |-> JsonNull,
     seen |-> None,         \* the value of self.current_model read last
     handle |-> None,       \* the name whose generator line 112 has fetched
     fetched_from |-> 0,    \* the call that made the handle fetched there
     inserted |-> FALSE,    \* line 90 has stored a handle made by this call
     missed |-> FALSE,      \* line 112 has looked up a name that is no key
     ret |-> FALSE, out |-> Returned(<<>>), resp |-> NoResponse]

\* the process before the interpreter has started
NotStarted ==
    [pc |-> "not_started", entry |-> "none", argv1 |-> "", install |-> FALSE,
     model |-> DefaultModel, prompt |-> PyNone, installed |-> "not_run",
     load_calls |-> 0, load_ret |-> FALSE, generate_calls |-> 0,
     result |-> Returned(<<>>), printed |-> <<>>, exit_code |-> -1]

(***************************************************************************)
(* State                                                                   *)
(***************************************************************************)
VARIABLES
    models,                 \* LocalLLMService.models
    current_model,          \* LocalLLMService.current_model
    transformers_imported,  \* the import of line 56 has succeeded in this process
    setup_calls,            \* AutoTokenizer.from_pretrained calls per model name
    last,                   \* the latest call: its arguments, what it saw, its result
    last_success,           \* the model name of the latest load_model call that returned True
    threads,                \* the calls in progress on concurrent threads
    cli                     \* the command-line process

vars == <<models, current_model, transformers_imported, setup_calls, last,
          last_success, threads, cli>>

Service == ServiceState(models, current_model, transformers_imported, setup_calls)

NoPrev == [op |-> "none", model_name |-> None, ret |-> FALSE,
           cached_before |-> FALSE, setup_calls_before |-> 0]

NoCall ==
    [op |-> "none", model_name |-> None, outcome |-> "ok", prompt |-> PyNone,
     adapter |-> NotInvoked, body |-> JsonNull, pre |-> Service, ret |-> FALSE,
     gen |-> NoGen, fallback_out |-> Returned(<<>>),
     resp |-> NoResponse, prev |-> NoPrev]

\* the summary of a load_model call that the next call remembers
AsPrev(call) ==
    IF call.op = "load_model"
    THEN [op |-> "load_model", model_name |-> call.model_name, ret |-> call.ret,
          cached_before |-> call.model_name \in DOMAIN call.pre.models,
          setup_calls_before |-> call.pre.setup_calls[call.model_name]]
    ELSE NoPrev

\* LocalLLMService.__init__; no thread and no command-line process has started
Init ==
    /\ models = EmptyDict
    /\ current_model = None
    /\ transformers_imported = FALSE
    /\ setup_calls = [n \in ModelNames |-> 0]
    /\ last = [NoCall EXCEPT !.pre = ServiceState(EmptyDict, None, FALSE,
                                                  [n \in ModelNames |-> 0])]
    /\ last_success = None
    /\ threads = [t \in Threads |-> IdleThread]
    /\ cli = NotStarted

\* the calls below are made one at a time by a single caller
Sequential == UNCHANGED <<threads, cli>>

Install(st) ==
    /\ models' = st.models
    /\ current_model' = st.current_model
    /\ transformers_imported' = st.transformers_imported
    /\ setup_calls' = st.setup_calls

\* a call service.load_model(model_name)
LoadModel ==
    \E model_name \in ModelNames, outcome \in SetupOutcomes :
        /\ outcome = "import_error" => ~transformers_imported
        /\ model_name \in DOMAIN models => outcome \in {"ok", "import_error"}
        /\ model_name \notin DOMAIN models => setup_calls[model_name] < MaxSetupCalls
        /\ LET r == load_model(Service, model_name, outcome) IN
           /\ Install(r.st)
           /\ last' = [NoCall EXCEPT !.op = "load_model", !.model_name = model_name,
                                     !.outcome = outcome, !.pre = Service,
                                     !.ret = r.ret, !.prev = AsPrev(last)]
           /\ last_success' = IF r.ret THEN model_name ELSE last_success
           /\ Sequential

\* a call service.generate_text(prompt) by a caller that holds a str
GenerateText ==
    \E prompt \in CallPrompts, adapter \in AdapterOutcomes \cup {NotInvoked} :
        /\ (adapter = NotInvoked) <=> ~invokes_generator(Service, prompt)
        /\ LET g == generate_text(Service, prompt, adapter) IN
           /\ Install(g.st)
           /\ last' = [NoCall EXCEPT !.op = "generate_text", !.prompt = prompt,
                                     !.adapter = adapter, !.pre = Service,
                                     !.gen = GenCall(g)]
           /\ UNCHANGED last_success
           /\ Sequential

\* a request POST /generate
HttpGenerate ==
    \E body \in RequestBodies, adapter \in AdapterOutcomes \cup {NotInvoked} :
        /\ (adapter = NotInvoked) <=>
              ~(/\ body.json = "object" /\ body.has_prompt /\ truthy(body.prompt)
                /\ invokes_generator(Service, body.prompt))
        /\ LET h == http_generate_text(Service, body, adapter) IN
           /\ Install(h.st)
           /\ last' = [NoCall EXCEPT !.op = "http_generate", !.body = body,
                                     !.prompt = IF body.has_prompt THEN body.prompt
                                                ELSE PyStr(<<>>),
                                     !.adapter = adapter, !.pre = Service,
                                     !.gen = h.gen, !.resp = h.resp]
           /\ UNCHANGED last_success
           /\ Sequential

\* a request GET /health
HealthCheck ==
    /\ UNCHANGED <<models, current_model, transformers_imported, setup_calls>>
    /\ last' = [NoCall EXCEPT !.op = "health_check", !.pre = Service,
                              !.resp = health_check]
    /\ UNCHANGED last_success
    /\ Sequential

Next == LoadModel \/ GenerateText \/ HttpGenerate \/ HealthCheck

Spec == Init /\ [][Next]_vars

(***************************************************************************)
(* The fallback responder on its own                                       *)
(***************************************************************************)
FallbackPrompts == {PyStr(p) : p \in PromptsUpTo(MaxPromptTokens)}

\* a call service.generate_fallback_response(prompt)
FallbackCall ==
    \E prompt \in FallbackPrompts :
        /\ UNCHANGED <<models, current_model, transformers_imported, setup_calls>>
        /\ last' = [NoCall EXCEPT !.op = "generate_fallback_response",
                                  !.prompt = prompt, !.pre = Service,
                                  !.fallback_out = generate_fallback_response(prompt)]
        /\ UNCHANGED last_success
        /\ Sequential

NextFallback == FallbackCall

SpecFallback == Init /\ [][NextFallback]_vars

(***************************************************************************)
(* The HTTP server: start_server with app.run(threaded=True)               *)
(***************************************************************************)
\* the prompt the handler of POST /generate reads from a JSON object
prompt_of(body) == IF body.has_prompt THEN body.prompt ELSE PyStr(<<>>)

\* the handler of a request would reach the generator of the current model
reaches_generator(st, body) ==
    /\ body.json = "object" /\ body.has_prompt /\ truthy(body.prompt)
    /\ invokes_generator(st, body.prompt)

\* a request arrives and Flask starts a thread for it
Accept(t) ==
    /\ threads[t].pc = "idle"
    /\ \/ \E body \in RequestBodies :
            threads' = [threads EXCEPT ![t] =
                [IdleThread EXCEPT !.op = "http_generate", !.pc = "handling",
                                   !.body = body, !.prompt = prompt_of(body)]]
       \/ threads' = [threads EXCEPT ![t] =
                [IdleThread EXCEPT !.op = "health_check", !.pc = "handling"]]
    /\ UNCHANGED <<models, current_model, transformers_imported, setup_calls,
                   last, last_success, cli>>

\* the thread runs the handler of POST /generate: the handler reads the
\* registry of the server's service and returns a response
HandleGenerate(t) ==
    /\ threads[t].pc = "handling" /\ threads[t].op = "http_generate"
    /\ \E adapter \in AdapterOutcomes \cup {NotInvoked} :
        /\ (adapter = NotInvoked) <=> ~reaches_generator(Service, threads[t].body)
        /\ LET h == http_generate_text(Service, threads[t].body, adapter) IN
           /\ Install(h.st)
           /\ threads' = [threads EXCEPT ![t].pc = "responded",
                                         ![t].ret = h.gen.called,
                                         ![t].out = h.gen.out,
                                         ![t].resp = h.resp]
    /\ UNCHANGED <<last, last_success, cli>>

\* the thread runs the handler of GET /health
HandleHealth(t) ==
    /\ threads[t].pc = "handling" /\ threads[t].op = "health_check"
    /\ threads' = [threads EXCEPT ![t].pc = "responded", ![t].resp = health_check]
    /\ UNCHANGED <<models, current_model, transformers_imported, setup_calls,
                   last, last_success, cli>>

\* the response has been sent and the thread ends
Finish(t) ==
    /\ threads[t].pc = "responded"
    /\ threads[t].op \in {"http_generate", "health_check"}
    /\ threads' = [threads EXCEPT ![t] = IdleThread]
    /\ UNCHANGED <<models, current_model, transformers_imported, setup_calls,
                   last, last_success, cli>>

NextServer ==
    \E t \in Threads : Accept(t) \/ HandleGenerate(t) \/ HandleHealth(t) \/ Finish(t)

SpecServer == Init /\ [][NextServer]_vars

(***************************************************************************)
(* Concurrent callers of one LocalLLMService: every thread makes one call, *)
(* load_model or generate_text, and the calls interleave between the       *)
(* statements that read or write self.models and self.current_model        *)
(***************************************************************************)
ConcPrompts == {PyStr(tok_Feasibility)}
ConcAdapterOutcomes == {AdapterResult("raise", <<>>), AdapterResult("text", <<"a">>)}

\* the tokenizer, model and pipeline objects that the load_model call of
\* thread t creates: equal in content to those of any other call for the
\* name, but objects of their own
CreatedHandle(t, model_name) == ModelHandle(model_name) @@ [made_by |-> t]

\* a thread of a single call does not touch the sequential history
Concurrent == UNCHANGED <<last, last_success, cli>>

\* the except branch of load_model: log and return False
load_failed(thread) == [thread EXCEPT !.pc = "done", !.ret = FALSE]

\* a return of generate_fallback_response(prompt) from generate_text
fallback_return(thread) ==
    [thread EXCEPT !.pc = "done", !.out = generate_fallback_response(thread.prompt)]

\* a thread enters load_model(model_name)
StartLoad(t) ==
    /\ threads[t].pc = "idle"
    /\ \E model_name \in ModelNames :
          threads' = [threads EXCEPT ![t] =
              [IdleThread EXCEPT !.op = "load_model", !.pc = "import",
                                 !.model_name = model_name]]
    /\ UNCHANGED <<models, current_model, transformers_imported, setup_calls>>
    /\ Concurrent

\* lines 56-57: the imports succeed, or raise while nothing is imported yet
LoadImport(t) ==
    /\ threads[t].op = "load_model" /\ threads[t].pc = "import"
    /\ \/ /\ transformers_imported' = TRUE
          /\ threads' = [threads EXCEPT ![t].pc = "check"]
       \/ /\ ~transformers_imported
          /\ UNCHANGED transformers_imported
          /\ threads' = [threads EXCEPT ![t] = load_failed(@)]
    /\ UNCHANGED <<models, current_model, setup_calls>>
    /\ Concurrent

\* line 62: if model_name not in self.models
LoadCheck(t) ==
    /\ threads[t].op = "load_model" /\ threads[t].pc = "check"
    /\ threads' = [threads EXCEPT ![t].pc =
                      IF threads[t].model_name \notin DOMAIN models
                      THEN "create" ELSE "select"]
    /\ UNCHANGED <<models, current_model, transformers_imported, setup_calls>>
    /\ Concurrent

\* lines 64-88: the tokenizer, the model and the pipeline are created, or one
\* of the three creations raises; the objects are local to the call
LoadCreate(t) ==
    /\ threads[t].op = "load_model" /\ threads[t].pc = "create"
    /\ setup_calls[threads[t].model_name] < MaxSetupCalls
    /\ setup_calls' = [setup_calls EXCEPT ![threads[t].model_name] = @ + 1]
    /\ \/ threads' = [threads EXCEPT ![t].pc = "insert"]
       \/ threads' = [threads EXCEPT ![t] = load_failed(@)]
    /\ UNCHANGED <<models, current_model, transformers_imported>>
    /\ Concurrent

\* lines 90-94: self.models[model_name] = {...}
LoadInsert(t) ==
    /\ threads[t].op = "load_model" /\ threads[t].pc = "insert"
    /\ models' = dict_set(models, threads[t].model_name,
                          CreatedHandle(t, threads[t].model_name))
    /\ threads' = [threads EXCEPT ![t].pc = "select", ![t].inserted = TRUE]
    /\ UNCHANGED <<current_model, transformers_imported, setup_calls>>
    /\ Concurrent

\* lines 98-99: self.current_model = model_name; return True
LoadSelect(t) ==
    /\ threads[t].op = "load_model" /\ threads[t].pc = "select"
    /\ current_model' = threads[t].model_name
    /\ threads' = [threads EXCEPT ![t].pc = "done", ![t].ret = TRUE]
    /\ UNCHANGED <<models, transformers_imported, setup_calls>>
    /\ Concurrent

\* a thread enters generate_text(prompt)
StartGenerate(t) ==
    /\ threads[t].pc = "idle"
    /\ \E prompt \in ConcPrompts :
          threads' = [threads EXCEPT ![t] =
              [IdleThread EXCEPT !.op = "generate_text", !.pc = "check_none",
                                 !.prompt = prompt]]
    /\ UNCHANGED <<models, current_model, transformers_imported, setup_calls>>
    /\ Concurrent

\* line 108, left operand: self.current_model is None
GenCheckNone(t) ==
    /\ threads[t].op = "generate_text" /\ threads[t].pc = "check_none"
    /\ threads' = [threads EXCEPT ![t] =
          IF current_model = None
          THEN fallback_return([@ EXCEPT !.seen = current_model])
          ELSE [@ EXCEPT !.seen = current_model, !.pc = "check_in"]]
    /\ UNCHANGED <<models, current_model, transformers_imported, setup_calls>>
    /\ Concurrent

\* line 108, right operand: self.current_model not in self.models
GenCheckIn(t) ==
    /\ threads[t].op = "generate_text" /\ threads[t].pc = "check_in"
    /\ threads' = [threads EXCEPT ![t] =
          IF current_model \notin DOMAIN models
          THEN fallback_return([@ EXCEPT !.seen = current_model])
          ELSE [@ EXCEPT !.seen = current_model, !.pc = "lookup"]]
    /\ UNCHANGED <<models, current_model, transformers_imported, setup_calls>>
    /\ Concurrent

\* line 112: self.models[self.current_model]['generator']; a name that is
\* no key raises KeyError, which the except branch turns into the fallback
GenLookup(t) ==
    /\ threads[t].op = "generate_text" /\ threads[t].pc = "lookup"
    /\ threads' = [threads EXCEPT ![t] =
          IF current_model \notin DOMAIN models
          THEN fallback_return([@ EXCEPT !.seen = current_model, !.missed = TRUE])
          ELSE [@ EXCEPT !.seen = current_model, !.handle = current_model,
                         !.fetched_from = models[current_model].made_by,
                         !.pc = "call"]]
    /\ UNCHANGED <<models, current_model, transformers_imported, setup_calls>>
    /\ Concurrent

\* lines 115-137: the generator that was fetched is called
GenInvoke(t) ==
    /\ threads[t].op = "generate_text" /\ threads[t].pc = "call"
    /\ \E adapter \in ConcAdapterOutcomes :
          threads' = [threads EXCEPT ![t].pc = "done",
              ![t].out = generate_text(
                            ServiceState(models, threads[t].handle,
                                         transformers_imported, setup_calls),
                            threads[t].prompt, adapter).out]
    /\ UNCHANGED <<models, current_model, transformers_imported, setup_calls>>
    /\ Concurrent

\* the call returns to its caller, and the thread is free for another call
Return(t) ==
    /\ threads[t].op \in {"load_model", "generate_text"}
    /\ threads[t].pc = "done"
    /\ threads' = [threads EXCEPT ![t] = IdleThread]
    /\ UNCHANGED <<models, current_model, transformers_imported, setup_calls>>
    /\ Concurrent

NextConcurrent ==
    \E t \in Threads :
        \/ StartLoad(t) \/ LoadImport(t) \/ LoadCheck(t) \/ LoadCreate(t)
        \/ LoadInsert(t) \/ LoadSelect(t)
        \/ StartGenerate(t) \/ GenCheckNone(t) \/ GenCheckIn(t) \/ GenLookup(t)
        \/ GenInvoke(t) \/ Return(t)

SpecConcurrent == Init /\ [][NextConcurrent]_vars

(***************************************************************************)
(* One run of the command line: the __main__ block and main()              *)
(***************************************************************************)
InstallOutcomes == {"already_installed", "installed", "pip_failed"}

\* install_dependencies: True when the imports succeed or every pip call
\* succeeds, False when a pip call fails
install_dependencies(st, outcome) ==
    CASE outcome = "already_installed" ->
            [st |-> [st EXCEPT !.transformers_imported = TRUE], ret |-> TRUE]
      [] outcome = "installed" -> [st |-> st, ret |-> TRUE]
      [] OTHER -> [st |-> st, ret |-> FALSE]

\* how the process is entered: as a script, or by a call of main()
Entries == {"script", "main"}
\* sys.argv[1]; "" when there is no argument
FirstArguments == {"", "--install", "--server", "--prompt", "--model"}
\* args.prompt: None when --prompt is absent
CliPrompts == {PyNone} \cup CallPrompts

\* the command lines that argparse or the __main__ block accept
ValidCommandLine(entry, argv1, install, model, prompt) ==
    /\ argv1 = "" => ~install /\ prompt = PyNone /\ model = DefaultModel
    /\ argv1 = "--install" => install
    /\ argv1 = "--prompt" => prompt # PyNone
    /\ argv1 = "--server" =>
          entry = "script" /\ ~install /\ prompt = PyNone /\ model = DefaultModel

CliSteps == UNCHANGED <<last, last_success, threads>>

exit(code) == [cli EXCEPT !.pc = "exited", !.exit_code = code]

\* the interpreter starts with a command line
CliStart ==
    /\ cli.pc = "not_started"
    /\ \E entry \in Entries, argv1 \in FirstArguments, install \in BOOLEAN,
          model \in ModelNames, prompt \in CliPrompts :
          /\ ValidCommandLine(entry, argv1, install, model, prompt)
          /\ cli' = [cli EXCEPT !.pc = IF entry = "script" THEN "dispatch" ELSE "main",
                                !.entry = entry, !.argv1 = argv1,
                                !.install = install, !.model = model,
                                !.prompt = prompt]
    /\ UNCHANGED <<models, current_model, transformers_imported, setup_calls>>
    /\ CliSteps

\* lines 266-268: sys.argv[1] == "--install": install_dependencies() is
\* called, its result is dropped, and the script ends
CliScriptInstall ==
    /\ cli.pc = "dispatch" /\ cli.argv1 = "--install"
    /\ \E outcome \in InstallOutcomes :
          LET r == install_dependencies(Service, outcome) IN
          /\ Install(r.st)
          /\ cli' = [exit(0) EXCEPT !.installed = outcome]
    /\ CliSteps

\* lines 269-270: sys.argv[1] == "--server": start_server() does not return
CliScriptServer ==
    /\ cli.pc = "dispatch" /\ cli.argv1 = "--server"
    /\ cli' = [cli EXCEPT !.pc = "serving"]
    /\ UNCHANGED <<models, current_model, transformers_imported, setup_calls>>
    /\ CliSteps

\* lines 271-272: sys.exit(main())
CliScriptMain ==
    /\ cli.pc = "dispatch" /\ cli.argv1 \notin {"--install", "--server"}
    /\ cli' = [cli EXCEPT !.pc = "main"]
    /\ UNCHANGED <<models, current_model, transformers_imported, setup_calls>>
    /\ CliSteps

\* lines 193-199: if args.install
CliMainInstall ==
    /\ cli.pc = "main"
    /\ IF cli.install
       THEN \E outcome \in InstallOutcomes :
               LET r == install_dependencies(Service, outcome) IN
               /\ Install(r.st)
               /\ cli' = IF r.ret
                         THEN [cli EXCEPT !.pc = "prompt", !.installed = outcome]
                         ELSE [exit(1) EXCEPT !.installed = outcome]
       ELSE /\ cli' = [cli EXCEPT !.pc = "prompt"]
            /\ UNCHANGED <<models, current_model, transformers_imported, setup_calls>>
    /\ CliSteps

\* lines 201-204 and 211-215: if args.prompt: service.load_model(args.model)
CliLoad ==
    /\ cli.pc = "prompt"
    /\ IF truthy(cli.prompt)
       THEN \E outcome \in SetupOutcomes :
               /\ outcome = "import_error" => ~transformers_imported
               /\ LET r == load_model(Service, cli.model, outcome) IN
                  /\ Install(r.st)
                  /\ cli' = IF r.ret
                            THEN [cli EXCEPT !.pc = "generate", !.load_ret = TRUE,
                                             !.load_calls = @ + 1]
                            ELSE [exit(1) EXCEPT !.load_calls = @ + 1]
       ELSE /\ cli' = exit(0)
            /\ UNCHANGED <<models, current_model, transformers_imported, setup_calls>>
    /\ CliSteps

\* lines 205-210 and 215: result = service.generate_text(...); print(result)
CliGenerate ==
    /\ cli.pc = "generate"
    /\ \E adapter \in AdapterOutcomes :
          LET r == generate_text(Service, cli.prompt, adapter) IN
          /\ Install(r.st)
          /\ cli' = IF r.out.kind = "return"
                    THEN [exit(0) EXCEPT !.generate_calls = @ + 1, !.result = r.out,
                                         !.printed = Append(@, r.out.text)]
                    ELSE [exit(1) EXCEPT !.generate_calls = @ + 1, !.result = r.out]
    /\ CliSteps

NextCLI ==
    \/ CliStart \/ CliScriptInstall \/ CliScriptServer \/ CliScriptMain
    \/ CliMainInstall \/ CliLoad \/ CliGenerate

SpecCLI == Init /\ [][NextCLI]_vars

(***************************************************************************)
(* Properties                                                              *)
(***************************************************************************)
\* the latest call reached LocalLLMService.generate_text, directly or from
\* the handler of POST /generate
GenerateTextCalled == last.gen.called

\* C1: every call of generate_text ends by returning a text; no exception
\* leaves the call, whatever the prompt, the registry and the adapter do.
C1_GenerateTextNeverRaises ==
    GenerateTextCalled => last.gen.out.kind = "return"

\* the adapter handed back no entry, or a text of whitespace only
AdapterBlank(a) ==
    \/ a.kind \in {"none", "empty"}
    \/ a.kind = "text" /\ \A i \in 1..Len(a.text) : a.text[i] \in Whitespace

\* C2: when the adapter hands back an empty or blank result the call ends as
\* the fallback responder does, otherwise it returns the generated text
\* trimmed; a returned text is never empty.
C2_BlankResultFallsBack ==
    (GenerateTextCalled /\ last.adapter.kind \in {"none", "empty", "text"}) =>
        /\ AdapterBlank(last.adapter) =>
               last.gen.out = generate_fallback_response(last.prompt)
        /\ ~AdapterBlank(last.adapter) =>
               last.gen.out = Returned(str_strip(last.adapter.text))
        /\ last.gen.out.kind = "return" => last.gen.out.text # <<>>

\* C3: the current model name is unset or a key of the models mapping.
C3_CurrentModelIsLoaded ==
    current_model = None \/ current_model \in DOMAIN models

\* a load has failed while another model was current
C3_Witness ==
    /\ last.op = "load_model" /\ ~last.ret
    /\ current_model # None /\ current_model # last.model_name

\* C4: a load_model call that returns failure leaves the models mapping and
\* the current model name as they were before the call.
C4_FailedLoadChangesNothing ==
    (last.op = "load_model" /\ ~last.ret) =>
        /\ models = last.pre.models
        /\ current_model = last.pre.current_model

\* the pipeline creation, the last setup step, has failed in a registry
\* that already holds another model
C4_Witness ==
    /\ last.op = "load_model" /\ last.outcome = "pipeline_error" /\ ~last.ret
    /\ last.pre.models # EmptyDict
    /\ setup_calls[last.model_name] = last.pre.setup_calls[last.model_name] + 1

\* C5: load_model of a name that is already a key runs no setup, leaves the
\* mapping alone, selects the name and returns success; a second load_model
\* of a name right after the call that loaded it leaves the number of setups
\* for the name at one more than before the two calls.
C5_LoadIsIdempotentCache ==
    /\ (last.op = "load_model" /\ last.model_name \in DOMAIN last.pre.models) =>
          /\ setup_calls = last.pre.setup_calls
          /\ models = last.pre.models
          /\ current_model = last.model_name
          /\ last.ret
    /\ (/\ last.op = "load_model" /\ last.prev.op = "load_model"
        /\ last.prev.model_name = last.model_name
        /\ last.prev.ret /\ ~last.prev.cached_before) =>
          setup_calls[last.model_name] = last.prev.setup_calls_before + 1

\* two load_model calls of one name in a row, the first of which loaded it
C5_Witness ==
    /\ last.op = "load_model" /\ last.prev.op = "load_model"
    /\ last.prev.model_name = last.model_name
    /\ last.prev.ret /\ ~last.prev.cached_before
    /\ last.ret /\ current_model = last.model_name

\* C6: with no current model, or a current model name that is not a key,
\* generate_text ends exactly as generate_fallback_response(prompt) ends and
\* the generator is not called.
C6_NoModelGoesToFallback ==
    (GenerateTextCalled /\ ~has_current_model(last.pre)) =>
        /\ last.gen.out = generate_fallback_response(last.prompt)
        /\ last.gen.generator_calls = 0

\* generate_text without a current model on a prompt that mentions
\* "feasibility": the feasibility template comes back, no generator is called
C6_Witness ==
    /\ last.op = "generate_text" /\ last.pre.current_model = None
    /\ last.gen.generator_calls = 0
    /\ last.gen.out = Returned(FeasibilityTemplate)

\* C7: generate_text leaves the models mapping and the current model name as
\* they were; when the generator raises, the call ends as
\* generate_fallback_response(prompt) ends.
C7_GenerateTextIsReadOnly ==
    GenerateTextCalled =>
        /\ models = last.pre.models
        /\ current_model = last.pre.current_model
        /\ last.adapter.kind = "raise" =>
               last.gen.out = generate_fallback_response(last.prompt)

\* the generator of a loaded model has raised and a template came back
C7_Witness ==
    /\ last.op = "generate_text" /\ last.adapter.kind = "raise"
    /\ last.gen.generator_calls = 1
    /\ last.gen.out = Returned(BusinessCaseTemplate)

\* the keyword occurs in s at offset i, each letter in either case
OccursAt(kw, s, i) ==
    \A j \in 1..Len(kw) :
        \/ s[i + j] = kw[j]
        \/ \E k \in 1..Len(LowerCase) : LowerCase[k] = kw[j] /\ s[i + j] = UpperCase[k]

Mentions(kw, s) == \E i \in 0..(Len(s) - Len(kw)) : OccursAt(kw, s, i)

HasChunk(text, chunk) == \E i \in 1..Len(text) : text[i] = chunk

PromptMissingOrEmpty(body) ==
    /\ body.json = "object"
    /\ \/ ~body.has_prompt
       \/ body.prompt \in {PyStr(<<>>), PyNone, PyList(<<>>), PyDict(<<>>)}

\* C9: POST /generate with a JSON object whose prompt is missing or empty is
\* answered 400 with the error "No prompt provided" and generate_text is
\* not called.
C9_EmptyPromptIs400 ==
    (last.op = "http_generate" /\ PromptMissingOrEmpty(last.body)) =>
        /\ last.resp = Response(400, [error |-> "No prompt provided"])
        /\ ~last.gen.called

\* the body {} arrives while a model is current
C9_Witness ==
    /\ last.op = "http_generate" /\ last.body = JsonObjectNoPrompt
    /\ has_current_model(last.pre)
    /\ last.resp.status = 400

\* a prompt value that has a length, and the length is not zero
NonEmptyPrompt(v) == v.type \in {"str", "list", "dict"} /\ Len(v.val) > 0

\* C10: POST /generate with a JSON object that carries a non-empty prompt
\* calls generate_text and is answered 200 with status "success" and the
\* text generate_text returned; without a model, or when the generator
\* raises, that text is the fallback text of the prompt.
C10_NonEmptyPromptIs200 ==
    (/\ last.op = "http_generate" /\ last.body.json = "object"
     /\ last.body.has_prompt /\ NonEmptyPrompt(last.body.prompt)) =>
        /\ last.gen.called
        /\ last.gen.out.kind = "return"
        /\ last.resp = Response(200, [generated_text |-> last.gen.out.text,
                                      status |-> "success"])
        /\ (~has_current_model(last.pre) \/ last.adapter.kind = "raise") =>
               Returned(last.resp.body.generated_text)
                   = generate_fallback_response(last.body.prompt)

\* C14: GET /health is answered 200 with status "healthy", service
\* "Local LLM Service" and models_available true whatever the registry
\* holds, and leaves the registry as it was.
C14_HealthIsStatic ==
    last.op = "health_check" =>
        /\ last.resp.status = 200
        /\ last.resp.body = [status |-> "healthy", service |-> "Local LLM Service",
                             models_available |-> TRUE]
        /\ models = last.pre.models
        /\ current_model = last.pre.current_model

\* GET /health is answered while no model has ever been loaded
C14_Witness ==
    /\ last.op = "health_check" /\ models = EmptyDict /\ current_model = None
    /\ last.resp.body.models_available

\* C17: the current model name is the name of the latest load_model call
\* that returned success, unset when there is none; a failed load_model and
\* a generate_text call leave it as it was.
C17_CurrentIsLatestSuccessfulLoad ==
    /\ current_model = last_success
    /\ ((last.op = "load_model" /\ ~last.ret) \/ GenerateTextCalled) =>
           current_model = last.pre.current_model

\* a load_model of a cached name that was not current has selected it again
C17_Witness ==
    /\ last.op = "load_model" /\ last.ret
    /\ last.model_name \in DOMAIN last.pre.models
    /\ last.pre.current_model # last.model_name
    /\ current_model = last.model_name

\* C18: every key the mapping had before a call is a key after it, and a
\* key that is new after a call is the name of that call, a load_model call
\* that returned success.
C18_ModelsOnlyGrow ==
    /\ DOMAIN last.pre.models \subseteq DOMAIN models
    /\ \A n \in DOMAIN models \ DOMAIN last.pre.models :
           last.op = "load_model" /\ last.model_name = n /\ last.ret

\* a second model has been loaded and the first is still a key
C18_Witness ==
    /\ last.op = "load_model" /\ last.ret
    /\ last.pre.models # EmptyDict
    /\ last.model_name \notin DOMAIN last.pre.models
    /\ DOMAIN models = ModelNames

\* an exception is raised inside the try block of the handler: get_json
\* fails, the body has no get, the prompt has no slice, or generate_text raises
HandlerRaises(call) ==
    \/ call.body.json \in {"invalid", "null", "array"}
    \/ /\ call.body.json = "object" /\ call.body.has_prompt
       /\ call.body.prompt \in {PyTrue, PyInt("5"), PyDict(<<"k">>)}
    \/ call.gen.called /\ call.gen.out.kind = "raise"

\* C19: a POST /generate request is answered 400, 200 or 500; it is answered
\* 500, with status "error" and the error message, exactly when an exception
\* is raised while it is handled.
C19_HandlerCatchesEverything ==
    last.op = "http_generate" =>
        /\ last.resp.status \in {400, 200, 500}
        /\ (last.resp.status = 500) <=> HandlerRaises(last)
        /\ last.resp.status = 500 =>
              /\ DOMAIN last.resp.body = {"error", "status"}
              /\ last.resp.body.status = "error"
              /\ last.resp.body.error # ""

\* generate_text has raised inside the handler and the answer is 500
C19_Witness ==
    /\ last.op = "http_generate"
    /\ last.gen.called /\ last.gen.out.kind = "raise"
    /\ last.resp = ErrorResponse("AttributeError")

\* C13: on the server the registry stays as start_server created it, an
\* empty mapping and no current model, whatever requests are handled and
\* however they interleave; so the text of every 200 answer to POST /generate
\* is the fallback text of its prompt.
C13_ServerNeverLoads ==
    /\ models = EmptyDict
    /\ current_model = None
    /\ \A t \in Threads :
          (/\ threads[t].op = "http_generate" /\ threads[t].pc = "responded"
           /\ threads[t].resp.status = 200) =>
              Returned(threads[t].resp.body.generated_text)
                  = generate_fallback_response(threads[t].prompt)

\* one request has been answered 200 with the feasibility template while
\* another request is being handled
C13_Witness ==
    \E t, u \in Threads :
        /\ t # u
        /\ threads[t].op = "http_generate" /\ threads[t].pc = "responded"
        /\ threads[t].resp =
              Response(200, [generated_text |-> FeasibilityTemplate, status |-> "success"])
        /\ threads[u].pc = "handling"

\* C15: however concurrent load_model calls interleave, a handle is created
\* and stored once for a name: no step replaces the handle that the mapping
\* holds for a name by another one.
C15_HandleNeverReplaced ==
    [][\A n \in DOMAIN models :
          n \in DOMAIN models' /\ models'[n] = models[n]]_vars

\* the current model name is unset or a key of the mapping
PointerIsKey == current_model = None \/ current_model \in DOMAIN models

\* no generate_text call that has passed line 108 looks up a missing name
LookupFindsKey ==
    \A t \in Threads :
        threads[t].op = "generate_text" =>
            /\ ~threads[t].missed
            /\ threads[t].pc = "lookup" => threads[t].seen \in DOMAIN models

\* the handle whose generator a generate_text call is using is the handle
\* that the mapping holds for the name
FetchedHandleIsStored ==
    \A t \in Threads :
        (threads[t].op = "generate_text" /\ threads[t].pc = "call") =>
            /\ threads[t].handle \in DOMAIN models
            /\ models[threads[t].handle].made_by = threads[t].fetched_from

\* C16: at every step of concurrent load_model and generate_text calls the
\* current model name is unset or a key of the mapping, a generate_text call
\* that has passed the test of line 108 never looks up a name that is no
\* key, and the handle it uses is present in the mapping.
C16_PointerFollowsInsert ==
    PointerIsKey /\ LookupFindsKey /\ FetchedHandleIsStored

\* the process has ended after a requested installation that failed
InstallFailed == cli.install /\ cli.installed = "pip_failed"

\* C11: every run of the command line that asks for --install and whose
\* installation fails ends with exit code 1 and has loaded no model and
\* generated nothing, whether it entered as a script or through main().
C11_FailedInstallExitsOne ==
    (cli.pc = "exited" /\ InstallFailed) =>
        /\ cli.exit_code = 1
        /\ cli.load_calls = 0
        /\ cli.generate_calls = 0

\* C12: in every run with a non-empty --prompt and no failed installation,
\* generate_text is never called before load_model; at the end load_model
\* has been called once, and either it failed, nothing was generated or
\* printed and the exit code is 1, or it succeeded, generate_text was called
\* once, its result is what was printed and the exit code is 0. A run with
\* neither --install nor --prompt ends with exit code 0 and no call.
C12_PromptLoadsThenGenerates ==
    /\ cli.generate_calls > 0 => cli.load_calls > 0 /\ cli.load_ret
    /\ (cli.pc = "exited" /\ truthy(cli.prompt) /\ ~InstallFailed) =>
          /\ cli.load_calls = 1
          /\ ~cli.load_ret =>
                cli.generate_calls = 0 /\ cli.printed = <<>> /\ cli.exit_code = 1
          /\ cli.load_ret =>
                /\ cli.generate_calls = 1
                /\ cli.result.kind = "return"
                /\ cli.printed = <<cli.result.text>>
                /\ cli.exit_code = 0
    /\ (cli.pc = "exited" /\ ~cli.install /\ cli.prompt = PyNone) =>
          cli.load_calls = 0 /\ cli.generate_calls = 0 /\ cli.exit_code = 0

=============================================================================
